---- MODULE Spec2Model ----
(***************************************************************************)
(* Model of crypto_analysis.py: the market-data provider chain             *)
(* (get_crypto_data), the Gemini analysis client (analyze_with_gemini) with *)
(* its JSON extraction (_extract_json_from_response), the notification     *)
(* decision (should_send_notification) and the per-symbol loop             *)
(* (analyze_all_coins / main).                                             *)
(*                                                                         *)
(* Units: timestamps are milliseconds counted from a recent epoch (those   *)
(* counted from 1970 do not fit 32-bit integers); prices are in 1/100 of a *)
(* dollar; rsi is in tenths; macd values are in thousandths.               *)
(***************************************************************************)
EXTENDS Integers, Sequences, FiniteSets, TLC

VARIABLES
    pc,          \* position of the single thread of control
    ret,         \* where the function being executed returns to
    handler,     \* where an exception leaving that function is caught
    raised,      \* the exception in flight, "none" when there is none
    symbol,      \* argument symbol of the function being executed
    limit,       \* argument limit of get_crypto_data
    ohlcv_data,  \* result of get_crypto_data / argument of analyze_with_gemini
    calls,       \* provider functions called by the current get_crypto_data
    requests,    \* HTTP GET requests issued by the current get_crypto_data
    analysis,    \* result of analyze_with_gemini
    origin,      \* what produced analysis: "none", "gemini" or "mock"
    attempt,     \* loop variable of the retry loop
    statuses,    \* outcome of each POST of the current analyze_with_gemini
    sleeps,      \* seconds slept by the current analyze_with_gemini, in order
    response,    \* local variable response of analyze_with_gemini
    parsed,      \* what json.loads read in _extract_json_from_response
    notify,      \* result of should_send_notification: "undecided", "yes", "no"
    sent,        \* messages handed to Telegram for the current symbol
    paused,      \* whether time.sleep(2) ran in the current loop pass
    caught,      \* the exception the loop's except clause caught in this pass
    env,         \* the secrets present in the environment
    exitCode,    \* exit status of the process, -1 while it runs
    idx,         \* number of symbols the loop has taken from self.coins
    attempted    \* the symbols the loop has started, in order

vars == <<pc, ret, handler, raised, symbol, limit, ohlcv_data, calls, requests,
          analysis, origin, attempt, statuses, sleeps, response, parsed, notify,
          sent, paused, caught, env, exitCode, idx, attempted>>

fetchVars == <<ohlcv_data, calls, requests>>
analyzeVars == <<analysis, origin, attempt, statuses, sleeps, response, parsed>>
loopVars == <<notify, sent, paused, caught, env, exitCode, idx, attempted>>

----------------------------------------------------------------------------
(* Bounds of the model *)

MaxPoints == 1        \* data points in a provider's reply body
MaxSmallLimit == 2    \* small values of `limit` tried beside the default
MaxTextLen == 5       \* tokens of a text handed to the extraction on its own

(* Constants of the program *)

IntervalMs == 300000
MockCount == 200
CoinCapKeep == 200
DefaultLimit == 200
MockCloseOffset == 299999

coins == <<"BTCUSDT", "ETHUSDT", "CROUSDT">>

Symbols == {coins[i] : i \in 1..Len(coins)} \cup {"DOGEUSDT"}
Limits == (1..MaxSmallLimit) \cup {DefaultLimit}
Nows == {100000000}
PointCounts == (0..MaxPoints) \cup {CoinCapKeep + 1}

----------------------------------------------------------------------------
(* Python values *)

\* Optional[List]: None or a list
None == [kind |-> "None", items |-> <<>>]
List(s) == [kind |-> "list", items |-> s]
TruthyNotNone(v) == v.kind = "list"
Truthy(v) == v.kind = "list" /\ Len(v.items) > 0

\* a JSON scalar of a reply body: a number, or null
Num(n) == [isnum |-> TRUE, v |-> n]
Null == [isnum |-> FALSE, v |-> 0]

\* str(x): the text of a (non-negative) number is written as that number, the
\* text of None ("None"), which is not numeric, as -1
Str(j) == IF j.isnum THEN j.v ELSE -1
\* float(s) raises ValueError unless the text is numeric
FloatRaises(s) == s < 0
Float(s) == s

\* x * m / d without leaving 32-bit integers
MulDiv(x, m, d) == (x \div d) * m + ((x % d) * m) \div d

----------------------------------------------------------------------------
(* _try_coingecko_api *)

symbol_mapping == [s \in {"BTCUSDT", "ETHUSDT", "CROUSDT"} |->
    CASE s = "BTCUSDT" -> "bitcoin"
      [] s = "ETHUSDT" -> "ethereum"
      [] s = "CROUSDT" -> "crypto-com-chain"]

\* The replies a provider can give: requests.get raises (net_error), answers
\* a non-200 status, answers 200 with a body that is not the expected JSON
\* (malformed) or with `n` data points whose prices are numbers or null.
Responses == [net_error : BOOLEAN, status_code : {200, 404, 451, 500},
              malformed : BOOLEAN, n : PointCounts, nulls : BOOLEAN]

\* the i-th OHLC point [timestamp, open, high, low, close] of a CoinGecko body
GeckoItem(i, nulls) ==
    [t |-> 1000000 + i * 1800000,
     o |-> IF nulls THEN Null ELSE Num(10000 + i),
     h |-> Num(10100 + i), l |-> Num(9900 + i), c |-> Num(10050 + i)]

GeckoBody(resp) == [i \in 1..resp.n |-> GeckoItem(i, resp.nulls)]

ConvertGeckoLastMs(item) ==
    [timestamp |-> item.t,
     open |-> Str(item.o), high |-> Str(item.h),
     low |-> Str(item.l), close |-> Str(item.c),
     volume |-> Str(Num(1000000)),
     close_time |-> item.t + 299999]
ConvertGecko(item) ==
    [timestamp |-> item.t,
     open |-> Str(item.o), high |-> Str(item.h),
     low |-> Str(item.l), close |-> Str(item.c),
     volume |-> Str(Num(1000000)),
     close_time |-> item.t + 300000]

\* the value returned by _try_coingecko_api
CoinGeckoResult(sym, resp) ==
    IF sym \notin DOMAIN symbol_mapping THEN None
    ELSE IF resp.net_error THEN None
    ELSE IF resp.status_code = 200
         THEN IF resp.malformed THEN None
              ELSE List([i \in 1..resp.n |-> ConvertGecko(GeckoBody(resp)[i])])
         ELSE None

\* if data: return data; otherwise the chain goes on with the next provider
ReturnOrGoOnAlways(r, next) ==
    /\ ohlcv_data' = IF Truthy(r) THEN r ELSE ohlcv_data
    /\ pc' = next
ReturnOrGoOn(r, next) ==
    IF Truthy(r)
    THEN /\ ohlcv_data' = r
         /\ pc' = ret
    ELSE /\ ohlcv_data' = ohlcv_data
         /\ pc' = next

TryCoinGecko ==
    /\ pc = "get_crypto_data"
    /\ \E resp \in Responses :
         LET r == CoinGeckoResult(symbol, resp) IN
         /\ calls' = Append(calls, [fn |-> "coingecko", ok |-> Truthy(r)])
         /\ requests' = IF symbol \in DOMAIN symbol_mapping
                        THEN Append(requests, [provider |-> "coingecko",
                                               id |-> symbol_mapping[symbol]])
                        ELSE requests
         /\ ReturnOrGoOn(r, "try_coincap")
    /\ UNCHANGED <<ret, handler, raised, symbol, limit, analyzeVars, loopVars>>

----------------------------------------------------------------------------
(* _try_coincap_api *)

\* symbol.replace('USDT', '').lower() for the symbols of the model
StripLower(s) == IF s = "DOGEUSDT" THEN "doge" ELSE s

coincap_id(sym) ==
    IF sym \in DOMAIN symbol_mapping THEN symbol_mapping[sym] ELSE StripLower(sym)

\* the i-th point {'time', 'priceUsd'} of a CoinCap body
CapItem(i, nulls) ==
    [time |-> 1000000 + i * 300000,
     priceUsd |-> IF nulls /\ i = 1 THEN Str(Null) ELSE Str(Num(100000 + 1000 * i))]

CapBody(resp) == [i \in 1..resp.n |-> CapItem(i, resp.nulls)]

\* data[-200:]
LastN(s, k) == IF Len(s) <= k THEN s ELSE SubSeq(s, Len(s) - k + 1, Len(s))

ConvertCap(item) ==
    LET price == Float(item.priceUsd) IN
    [timestamp |-> item.time,
     open |-> Str(Num(MulDiv(price, 999, 1000))),
     high |-> Str(Num(MulDiv(price, 1001, 1000))),
     low |-> Str(Num(MulDiv(price, 998, 1000))),
     close |-> Str(Num(price)),
     volume |-> Str(Num(1000000)),
     close_time |-> item.time + 300000]

\* the value returned by _try_coincap_api
CoinCapResult(sym, resp) ==
    IF resp.net_error THEN None
    ELSE IF resp.status_code = 200
         THEN IF resp.malformed THEN None
              ELSE LET kept == LastN(CapBody(resp), CoinCapKeep) IN
                   IF \E i \in 1..Len(kept) : FloatRaises(kept[i].priceUsd)
                   THEN None
                   ELSE List([i \in 1..Len(kept) |-> ConvertCap(kept[i])])
         ELSE None

TryCoinCap ==
    /\ pc = "try_coincap"
    /\ \E resp \in Responses :
         LET r == CoinCapResult(symbol, resp) IN
         /\ calls' = Append(calls, [fn |-> "coincap", ok |-> Truthy(r)])
         /\ requests' = Append(requests, [provider |-> "coincap",
                                          id |-> coincap_id(symbol)])
         /\ ReturnOrGoOn(r, "generate_mock_data")
    /\ UNCHANGED <<ret, handler, raised, symbol, limit, analyzeVars, loopVars>>

----------------------------------------------------------------------------
(* _generate_mock_data *)

base_prices(sym) ==
    CASE sym = "BTCUSDT" -> 6500000
      [] sym = "ETHUSDT" -> 350000
      [] sym = "CROUSDT" -> 12
      [] OTHER -> 10000

\* The streams of random.uniform draws tried: every draw at the middle of its
\* range, every draw at its lower end, or the ends alternating by candle.
RandomStreams == {"mid", "lo", "alt"}

\* random.uniform(lo, hi) for candle i of stream r
Uniform(lo, hi, r, i) ==
    CASE r = "mid" -> (lo + hi) \div 2
      [] r = "lo" -> lo
      [] r = "alt" -> IF i % 2 = 0 THEN hi ELSE lo

\* one pass of the loop body: the candle built from base_price
MockCandle(i, base_price, current_time, r) ==
    LET timestamp == current_time - (MockCount - i) * IntervalMs
        open_price == MulDiv(base_price, 10000 + Uniform(-200, 200, r, i), 10000)
        high_price == MulDiv(open_price, Uniform(10010, 10100, r, i), 10000)
        low_price == MulDiv(open_price, Uniform(9900, 9990, r, i), 10000)
        close_price == open_price
                       + MulDiv(open_price, Uniform(-100, 100, r, i) + 100, 10000)
                       - MulDiv(open_price, 100, 10000)
        volume == Uniform(1000000, 5000000, r, i)
    IN [timestamp |-> timestamp,
        open |-> Str(Num(open_price)), high |-> Str(Num(high_price)),
        low |-> Str(Num(low_price)), close |-> Str(Num(close_price)),
        volume |-> Str(Num(volume)),
        close_time |-> timestamp + MockCloseOffset,
        next_base |-> close_price]

\* mock_data and base_price after the passes i = a .. b-1 of the loop, started
\* with base_price = base (the range is halved to keep the evaluation shallow)
RECURSIVE MockWalk(_, _, _, _, _)
MockWalk(a, b, base, current_time, r) ==
    IF b <= a THEN [data |-> <<>>, base |-> base]
    ELSE IF b = a + 1
    THEN LET c == MockCandle(a, base, current_time, r)
         IN [data |-> <<[timestamp |-> c.timestamp, open |-> c.open,
                         high |-> c.high, low |-> c.low, close |-> c.close,
                         volume |-> c.volume, close_time |-> c.close_time]>>,
             base |-> c.next_base]
    ELSE LET m == (a + b) \div 2
             left == MockWalk(a, m, base, current_time, r)
             right == MockWalk(m, b, left.base, current_time, r)
         IN [data |-> left.data \o right.data, base |-> right.base]

\* the value returned by _generate_mock_data
MockData(sym, current_time, r) ==
    List(MockWalk(0, MockCount, base_prices(sym), current_time, r).data)

GenerateMockData ==
    /\ pc = "generate_mock_data"
    /\ \E current_time \in Nows, r \in RandomStreams :
         ohlcv_data' = MockData(symbol, current_time, r)
    /\ calls' = Append(calls, [fn |-> "mock", ok |-> TRUE])
    /\ pc' = ret
    /\ UNCHANGED <<ret, handler, raised, symbol, limit, requests, analyzeVars, loopVars>>

----------------------------------------------------------------------------
(* JSON values: the result of json.loads and of _generate_mock_analysis.    *)
(* A dict is represented by the set of (dotted) keys it holds and by the    *)
(* values the program reads; reading a key that is absent raises KeyError.  *)

IndicatorKeys == {"indicators.rsi", "indicators.sma20", "indicators.sma50",
                  "indicators.ema20", "indicators.sma200", "indicators.macd_line",
                  "indicators.macd_signal", "indicators.macd_histogram"}
LevelKeys == {"levels.support", "levels.resistance"}
SignalKeys == {"signals.rsi_signal", "signals.trend_short", "signals.trend_long",
               "signals.sma_cross", "signals.macd_signal", "signals.overall_signal"}
TopKeys == {"symbol", "current_price", "timestamp", "indicators", "levels",
            "signals", "analysis"}
AllKeys == TopKeys \cup IndicatorKeys \cup LevelKeys \cup SignalKeys

NoneValue ==
    [kind |-> "None", keys |-> {}, symbol |-> "", current_price |-> 0,
     rsi |-> 0, macd_histogram |-> 0,
     rsi_signal |-> "", trend_short |-> "", trend_long |-> "",
     sma_cross |-> "", macd_signal |-> "", overall_signal |-> ""]

\* the truth value of a JSON value: None, 0 and {} are false
TruthyValue(v) ==
    \/ v.kind = "dict" /\ v.keys # {}
    \/ v.kind = "number" /\ v.rsi # 0
    \/ v.kind = "str" /\ v.symbol # ""

----------------------------------------------------------------------------
(* _generate_mock_analysis *)

\* the draws of random.uniform tried for each indicator
RsiDrawsWide == {299, 701}
RsiDraws == {300, 700}
Sma20Draws == {98, 102}
Sma50Draws == {95, 98, 105}
Sma200Draws == {85, 115}
MacdLineDraws == {-100000, 100000}
MacdPerturbDraws == {-20000, -50, 50, 20000}
MockDraws == [rsi : RsiDraws, sma20 : Sma20Draws, sma50 : Sma50Draws,
              sma200 : Sma200Draws, macd_line : MacdLineDraws,
              perturb : MacdPerturbDraws]

\* a condition counted by sum
BoolToInt(b) == IF b THEN 1 ELSE 0

\* the overall signal chosen for a count of bullish signals
OverallSignalZeroFirst(bullish_signals) ==
    IF bullish_signals >= 4 THEN "strong_buy"
    ELSE IF bullish_signals >= 3 THEN "buy"
    ELSE IF bullish_signals <= 0 THEN "strong_sell"
    ELSE IF bullish_signals <= 1 THEN "sell"
    ELSE "hold"
OverallSignal(bullish_signals) ==
    IF bullish_signals >= 4 THEN "strong_buy"
    ELSE IF bullish_signals >= 3 THEN "buy"
    ELSE IF bullish_signals <= 1 THEN "sell"
    ELSE IF bullish_signals <= 0 THEN "strong_sell"
    ELSE "hold"

\* the record returned by _generate_mock_analysis for the draws d
MockAnalysis(sym, data, d) ==
    LET current_price == IF Truthy(data)
                         THEN Float(data.items[Len(data.items)].close)
                         ELSE 5000000
        rsi == d.rsi
        sma20 == MulDiv(current_price, d.sma20, 100)
        sma50 == MulDiv(current_price, d.sma50, 100)
        sma200 == MulDiv(current_price, d.sma200, 100)
        macd_line == d.macd_line
        macd_signal == macd_line + d.perturb
        macd_histogram == macd_line - macd_signal
        rsi_signal == IF rsi > 700 THEN "overbought"
                      ELSE IF rsi < 300 THEN "oversold" ELSE "neutral"
        trend_short == IF current_price > sma20 THEN "bullish" ELSE "bearish"
        trend_long == IF current_price > sma200 THEN "bullish" ELSE "bearish"
        sma_cross == IF sma20 > MulDiv(sma50, 1002, 1000) THEN "golden_cross"
                     ELSE IF sma20 < MulDiv(sma50, 998, 1000) THEN "death_cross"
                     ELSE "neutral"
        macd_signal_trend == IF macd_histogram > 0 THEN "bullish" ELSE "bearish"
        bullish_signals == BoolToInt(rsi < 300)
                           + BoolToInt(trend_short = "bullish")
                           + BoolToInt(trend_long = "bullish")
                           + BoolToInt(sma_cross = "golden_cross")
                           + BoolToInt(macd_signal_trend = "bullish")
    IN [kind |-> "dict", keys |-> AllKeys, symbol |-> sym,
        current_price |-> current_price,
        rsi |-> rsi, macd_histogram |-> macd_histogram,
        rsi_signal |-> rsi_signal, trend_short |-> trend_short,
        trend_long |-> trend_long, sma_cross |-> sma_cross,
        macd_signal |-> macd_signal_trend,
        overall_signal |-> OverallSignal(bullish_signals)]

\* float(ohlcv_data[-1][4]) raises when the last close is not numeric
MockAnalysisRaises(data) ==
    Truthy(data) /\ FloatRaises(data.items[Len(data.items)].close)

----------------------------------------------------------------------------
(* _extract_json_from_response.  A response text is a sequence of tokens:   *)
(* the fence markers, braces, the double quote, white space " ", prose "x", *)
(* scalar literals and atoms that stand for the members of an object.  The  *)
(* tokens between two double quotes are the characters of a string literal  *)
(* (a member with a string value when it stands inside an object).          *)

\* the marker that opens a json code block, and the bare fence marker
FenceJson == "FENCE_JSON"
Fence == "FENCE"
Quote == "QUOTE"
Scalars == {"5", "0"}
PayloadIds == {"quiet", "rsi_high", "macd_strong", "bad_enum", "no_levels",
               "no_signals", "no_histogram"}
Atoms == PayloadIds \cup {"n"}

\* str.find: the first position whose token is in S, 0 when there is none
Find(s, S) ==
    IF \E i \in 1..Len(s) : s[i] \in S
    THEN CHOOSE i \in 1..Len(s) : s[i] \in S /\ \A j \in 1..(i - 1) : s[j] \notin S
    ELSE 0

\* str.strip
Strip(s) ==
    LET ink == {i \in 1..Len(s) : s[i] # " "} IN
    IF ink = {} THEN <<>>
    ELSE SubSeq(s, CHOOSE i \in ink : \A j \in ink : i <= j,
                   CHOOSE i \in ink : \A j \in ink : i >= j)

\* brace_count after the tokens s[from..i]
BraceCount(s, from, i) ==
    Cardinality({j \in from..i : s[j] = "{"}) - Cardinality({j \in from..i : s[j] = "}"})

IsWs(t) == t = " "
NotWs(t) == ~IsWs(t)

\* what the JSON reader sees: whether position i lies inside a string literal
QuoteCount(s, i) == Cardinality({j \in 1..i : s[j] = Quote})
InString(s, i) == s[i] # Quote /\ QuoteCount(s, i) % 2 = 1

\* the nesting depth after s[1..i], braces inside string literals not counted
Depth(s, i) ==
    Cardinality({j \in 1..i : s[j] = "{" /\ ~InString(s, j)})
    - Cardinality({j \in 1..i : s[j] = "}" /\ ~InString(s, j)})

\* the tokens of s at the positions in keep, from position i on
RECURSIVE Pick(_, _, _)
Pick(s, keep, i) ==
    IF i > Len(s) THEN <<>>
    ELSE (IF i \in keep THEN <<s[i]>> ELSE <<>>) \o Pick(s, keep, i + 1)

\* no document has been read
NotParsed == [ok |-> FALSE, value |-> <<>>]

\* json.loads: [ok |-> FALSE] stands for JSONDecodeError; otherwise `value`
\* is the document read, white space outside string literals dropped
JsonLoads(s) ==
    LET c == Pick(s, {i \in 1..Len(s) : NotWs(s[i]) \/ InString(s, i)}, 1)
        closed == QuoteCount(c, Len(c)) % 2 = 0
        scalar == Len(c) = 1 /\ c[1] \in Scalars
        string == /\ Len(c) >= 2
                  /\ c[1] = Quote
                  /\ c[Len(c)] = Quote
                  /\ QuoteCount(c, Len(c)) = 2
        object == /\ Len(c) >= 2
                  /\ c[1] = "{"
                  /\ closed
                  /\ \A i \in 1..Len(c) :
                       InString(c, i) \/ c[i] \in {"{", "}", Quote} \cup Atoms
                  /\ Depth(c, Len(c)) = 0
                  /\ \A i \in 1..(Len(c) - 1) : Depth(c, i) > 0
    IN IF scalar \/ string \/ object THEN [ok |-> TRUE, value |-> c]
       ELSE NotParsed

\* Method 1: the text between the json marker and the next fence marker
FencedPart(text_response) ==
    LET start_idx == Find(text_response, {FenceJson})
        json_part == SubSeq(text_response, start_idx + 1, Len(text_response))
        marker_idx == Find(json_part, {Fence, FenceJson})
        end_idx == IF marker_idx # 0 THEN marker_idx - 1 ELSE Len(json_part)
    IN Strip(SubSeq(json_part, 1, end_idx))

\* Method 2: the position of the brace that closes the first "{", 0 if none
MatchingBrace(text_response, start_brace) ==
    LET closing == {i \in start_brace..Len(text_response) :
                       /\ text_response[i] = "}"
                       /\ BraceCount(text_response, start_brace, i) = 0}
    IN IF closing = {} THEN 0
       ELSE CHOOSE i \in closing : \A j \in closing : i <= j

\* the three methods in turn
ExtractJsonFallThrough(text_response) ==
    LET fenced == IF Find(text_response, {FenceJson}) # 0
                  THEN JsonLoads(FencedPart(text_response)) ELSE NotParsed
        start_brace == Find(text_response, {"{"})
        end_brace == IF start_brace = 0 THEN 0
                     ELSE MatchingBrace(text_response, start_brace)
        braced == IF start_brace # 0 /\ end_brace # 0
                  THEN JsonLoads(SubSeq(text_response, start_brace, end_brace))
                  ELSE NotParsed
    IN IF fenced.ok THEN fenced
       ELSE IF braced.ok THEN braced
       ELSE JsonLoads(Strip(text_response))
ExtractJson(text_response) ==
    IF Find(text_response, {FenceJson}) # 0
    THEN JsonLoads(FencedPart(text_response))
    ELSE LET start_brace == Find(text_response, {"{"})
             end_brace == IF start_brace = 0 THEN 0
                          ELSE MatchingBrace(text_response, start_brace)
         IN IF start_brace # 0 /\ end_brace # 0
            THEN JsonLoads(SubSeq(text_response, start_brace, end_brace))
            ELSE JsonLoads(Strip(text_response))

\* The dict a member atom stands for: the keys present and the values read
PayloadKeys(p) ==
    CASE p = "no_levels" -> AllKeys \ ({"levels"} \cup LevelKeys)
      [] p = "no_signals" -> AllKeys \ ({"signals"} \cup SignalKeys)
      [] p = "no_histogram" -> AllKeys \ {"indicators.macd_histogram"}
      [] OTHER -> AllKeys

PayloadRecord(p) ==
    [kind |-> "dict", keys |-> PayloadKeys(p), symbol |-> "BTCUSDT",
     current_price |-> 6500000,
     rsi |-> IF p \in {"rsi_high", "no_levels", "no_histogram"} THEN 750 ELSE 500,
     macd_histogram |-> IF p = "macd_strong" THEN 150 ELSE 0,
     rsi_signal |-> IF p \in {"rsi_high", "no_levels", "no_histogram"}
                    THEN "overbought" ELSE "neutral",
     trend_short |-> "neutral", trend_long |-> "neutral",
     sma_cross |-> "neutral",
     macd_signal |-> IF p = "macd_strong" THEN "bullish" ELSE "neutral",
     overall_signal |-> IF p = "bad_enum" THEN "moon" ELSE "hold"]

\* the text a reply carries for the payload p: an object with nested objects
PayloadText(p) == <<"{", p, "{", "n", "}", "}">>

\* the Python value of a document read by json.loads
Decode(c) ==
    IF Len(c) = 1
    THEN [NoneValue EXCEPT !.kind = "number", !.rsi = IF c[1] = "0" THEN 0 ELSE 5]
    ELSE IF c[1] = Quote
    THEN [NoneValue EXCEPT !.kind = "str", !.symbol = IF Len(c) = 2 THEN "" ELSE "x"]
    ELSE IF \E p \in PayloadIds : c = PayloadText(p)
    THEN PayloadRecord(CHOOSE p \in PayloadIds : c = PayloadText(p))
    ELSE IF Len(c) = 2
    THEN [NoneValue EXCEPT !.kind = "dict"]
    ELSE [NoneValue EXCEPT !.kind = "dict", !.keys = {"other"}]

\* the value returned by _extract_json_from_response (None on JSONDecodeError)
ExtractJsonFromResponse(text_response) ==
    LET r == ExtractJson(text_response) IN
    IF r.ok THEN Decode(r.value) ELSE NoneValue

\* _extract_json_from_response called on the text held by response
ExtractJsonStep ==
    /\ pc = "extract_json"
    /\ parsed' = ExtractJson(response.text)
    /\ analysis' = ExtractJsonFromResponse(response.text)
    /\ pc' = ret
    /\ UNCHANGED <<ret, handler, raised, symbol, limit, fetchVars, origin,
                   attempt, statuses, sleeps, response, loopVars>>

----------------------------------------------------------------------------
(* analyze_with_gemini *)

\* The replies of the AI service.  A reply body is described by its shape:
\* not JSON at all, a JSON scalar instead of an object, an object lacking one level
\* of candidates[0].content.parts[0].text, or a complete reply with its text.
Styles == {"raw", "fenced", "prose"}

Wrap(style, doc) ==
    CASE style = "raw" -> doc
      [] style = "fenced" -> <<FenceJson, " ">> \o doc \o <<" ", Fence>>
      [] style = "prose" -> <<"x", " ">> \o doc \o <<" ", "x">>

ReplyTexts ==
    {Wrap(st, PayloadText(p)) : st \in Styles, p \in PayloadIds}
    \cup {<<"{", "}">>, <<"5">>, <<"0">>, <<"x">>, <<"{", "n">>}

BrokenShapes == {"not_json", "not_object", "no_candidates", "empty_candidates",
                 "no_content", "no_parts", "empty_parts", "no_text"}

Body(shape, text) == [shape |-> shape, text |-> text]
Unbound == Body("unbound", <<>>)
ErrorBody == Body("no_candidates", <<>>)

Bodies == {Body(sh, <<>>) : sh \in BrokenShapes}
          \cup {Body("text", t) : t \in ReplyTexts}

GeminiResponses ==
    {[net_error |-> TRUE, status_code |-> 0, body |-> Unbound]}
    \cup {[net_error |-> FALSE, status_code |-> c, body |-> ErrorBody] : c \in {400, 503}}
    \cup {[net_error |-> FALSE, status_code |-> 200, body |-> b] : b \in Bodies}

StatusName(resp) ==
    IF resp.net_error THEN "net_error"
    ELSE IF resp.status_code = 503 THEN "503"
    ELSE IF resp.status_code = 200 THEN "200" ELSE "400"

\* 2 ** attempt
RetryWaitDoubled(n) == 2 ^ (n + 1)
RetryWait(n) == 2 ^ n

\* range(3)
MaxAttempts == 3
\* the attempt after which no retry follows (attempt < 2, attempt == 2)
LastAttemptLate == 2 + 1
LastAttempt == 2

\* float() of a candle's fields in the formatting loop
CandleRaises(c) ==
    \/ FloatRaises(c.open) \/ FloatRaises(c.high) \/ FloatRaises(c.low)
    \/ FloatRaises(c.close) \/ FloatRaises(c.volume)

\* if not ohlcv_data: return None; then the formatting loop
AnalyzeStart ==
    /\ pc = "analyze_with_gemini"
    /\ IF ~Truthy(ohlcv_data)
       THEN /\ analysis' = NoneValue
            /\ pc' = ret
            /\ UNCHANGED <<raised, attempt>>
       ELSE IF \E i \in 1..Len(ohlcv_data.items) : CandleRaises(ohlcv_data.items[i])
       THEN /\ raised' = "ValueError"
            /\ pc' = handler
            /\ UNCHANGED <<analysis, attempt>>
       ELSE /\ attempt' = 0
            /\ pc' = "gemini_request"
            /\ UNCHANGED <<analysis, raised>>
    /\ UNCHANGED <<ret, handler, symbol, limit, fetchVars, origin, statuses,
                   sleeps, response, parsed, loopVars>>

\* time.sleep(wait) followed by continue; when the loop is exhausted control
\* falls to the code after it
SleepAndContinue(wait) ==
    /\ sleeps' = Append(sleeps, wait)
    /\ attempt' = attempt + 1
    /\ pc' = IF attempt + 1 < MaxAttempts THEN "gemini_request" ELSE "gemini_parse"
    /\ UNCHANGED <<analysis, origin>>

\* return self._generate_mock_analysis(symbol, ohlcv_data)
ReturnNone ==
    /\ analysis' = NoneValue
    /\ origin' = "none"
    /\ pc' = ret
ReturnMock ==
    /\ analysis' \in {MockAnalysis(symbol, ohlcv_data, d) : d \in MockDraws}
    /\ origin' = "mock"
    /\ pc' = ret

\* one pass of the retry loop: the POST and the handling of its outcome
GeminiRequest ==
    /\ pc = "gemini_request"
    /\ attempt < MaxAttempts
    /\ \E resp \in GeminiResponses :
         /\ statuses' = Append(statuses, StatusName(resp))
         /\ response' = IF resp.net_error THEN response ELSE resp.body
         /\ IF ~resp.net_error /\ resp.status_code = 503 /\ attempt < LastAttempt
            THEN SleepAndContinue(RetryWait(attempt))
            ELSE IF resp.net_error \/ resp.status_code >= 400
            THEN IF attempt = LastAttempt
                 THEN ReturnMock /\ UNCHANGED <<attempt, sleeps>>
                 ELSE SleepAndContinue(RetryWait(attempt))
            ELSE /\ pc' = "gemini_parse"
                 /\ UNCHANGED <<analysis, origin, attempt, sleeps>>
    /\ UNCHANGED <<ret, handler, raised, symbol, limit, fetchVars, parsed,
                   loopVars>>

\* the code after the retry loop: response.json(), the structure checks and
\* the extraction; the frame's locals are gone once the function is left
ParseResponse ==
    /\ pc = "gemini_parse"
    /\ IF response.shape = "unbound"
       THEN /\ raised' = "UnboundLocalError"
            /\ pc' = handler
            /\ UNCHANGED <<analysis, origin>>
       ELSE IF response.shape = "not_object"
       THEN /\ raised' = "TypeError"
            /\ pc' = handler
            /\ UNCHANGED <<analysis, origin>>
       ELSE IF response.shape \in BrokenShapes
       THEN ReturnMock /\ UNCHANGED raised
       ELSE LET json_data == ExtractJsonFromResponse(response.text) IN
            IF TruthyValue(json_data)
            THEN /\ analysis' = json_data
                 /\ origin' = "gemini"
                 /\ pc' = ret
                 /\ UNCHANGED raised
            ELSE ReturnMock /\ UNCHANGED raised
    /\ response' = Unbound
    /\ attempt' = 0
    /\ UNCHANGED <<ret, handler, symbol, limit, fetchVars, statuses, sleeps,
                   parsed, loopVars>>

----------------------------------------------------------------------------
(* should_send_notification *)

Abs(x) == IF x < 0 THEN -x ELSE x

KeyError(a, k) == k \notin a.keys

Result(exc, val) == [exc |-> exc, val |-> val]

\* indicators['rsi'] > 70 or indicators['rsi'] < 30
ExtremeRsiInclusive(rsi) == rsi >= 700 \/ rsi <= 300
ExtremeRsi(rsi) == rsi > 700 \/ rsi < 300

\* the value returned, or the exception raised, for the record a
ShouldSendNotification(a) ==
    IF ~TruthyValue(a) THEN Result("none", FALSE)
    ELSE IF a.kind # "dict" THEN Result("TypeError", FALSE)
    ELSE IF KeyError(a, "signals") \/ KeyError(a, "indicators")
    THEN Result("KeyError", FALSE)
    ELSE IF KeyError(a, "indicators.rsi") THEN Result("KeyError", FALSE)
    ELSE IF ExtremeRsi(a.rsi) THEN Result("none", TRUE)
    ELSE IF KeyError(a, "signals.overall_signal") THEN Result("KeyError", FALSE)
    ELSE IF a.overall_signal \in {"strong_buy", "strong_sell"}
    THEN Result("none", TRUE)
    ELSE IF KeyError(a, "signals.sma_cross") THEN Result("KeyError", FALSE)
    ELSE IF a.sma_cross \in {"golden_cross", "death_cross"}
    THEN Result("none", TRUE)
    ELSE IF KeyError(a, "signals.macd_signal") THEN Result("KeyError", FALSE)
    ELSE IF a.macd_signal \in {"bullish", "bearish"}
    THEN IF KeyError(a, "indicators.macd_histogram") THEN Result("KeyError", FALSE)
         ELSE IF Abs(a.macd_histogram) > 100 THEN Result("none", TRUE)
         ELSE Result("none", FALSE)
    ELSE Result("none", FALSE)

\* should_send_notification called on its own
Decide ==
    /\ pc = "should_send_notification"
    /\ LET r == ShouldSendNotification(analysis) IN
         IF r.exc # "none"
         THEN /\ raised' = r.exc
              /\ pc' = handler
              /\ UNCHANGED notify
         ELSE /\ notify' = IF r.val THEN "yes" ELSE "no"
              /\ pc' = ret
              /\ UNCHANGED raised
    /\ UNCHANGED <<ret, handler, symbol, limit, fetchVars, analyzeVars, sent,
                   paused, caught, env, exitCode, idx, attempted>>

----------------------------------------------------------------------------
(* format_analysis_message, send_telegram_message *)

\* the keys format_analysis_message reads
FormatKeys == {"symbol", "indicators", "signals", "current_price", "analysis"}
              \cup IndicatorKeys \cup SignalKeys

FormatRaises(a) == a.kind # "dict" \/ ~(FormatKeys \subseteq a.keys)

----------------------------------------------------------------------------
(* main and analyze_all_coins *)

Secrets == {"GEMINI_API_KEY", "TELEGRAM_BOT_TOKEN", "TELEGRAM_CHAT_ID"}

\* the values a pass of the loop starts from
FreshPass ==
    /\ ohlcv_data' = None
    /\ calls' = <<>>
    /\ requests' = <<>>
    /\ analysis' = NoneValue
    /\ origin' = "none"
    /\ attempt' = 0
    /\ statuses' = <<>>
    /\ sleeps' = <<>>
    /\ response' = Unbound
    /\ notify' = "undecided"
    /\ sent' = <<>>
    /\ paused' = FALSE
    /\ caught' = "none"
    /\ raised' = "none"

\* all([self.gemini_api_key, self.telegram_token, self.telegram_chat_id])
AnySecret(e) == e # {}
AllSecrets(e) == e = Secrets

\* main: CryptoAnalyzer() raises when a secret is missing, and main exits 1
Construct ==
    /\ pc = "main"
    /\ IF AllSecrets(env)
       THEN /\ pc' = "loop"
            /\ UNCHANGED exitCode
       ELSE /\ pc' = "exit"
            /\ exitCode' = 1
    /\ UNCHANGED <<ret, handler, raised, symbol, limit, fetchVars, analyzeVars,
                   notify, sent, paused, caught, env, idx, attempted>>

\* for symbol in self.coins: the next pass starts with get_crypto_data(symbol);
\* after the last symbol analyze_all_coins returns and the process ends
LoopNext ==
    /\ pc = "loop"
    /\ IF idx < Len(coins)
       THEN /\ idx' = idx + 1
            /\ symbol' = coins[idx + 1]
            /\ attempted' = Append(attempted, coins[idx + 1])
            /\ limit' = DefaultLimit
            /\ pc' = "get_crypto_data"
            /\ ret' = "after_fetch"
            /\ handler' = "except"
            /\ FreshPass
            /\ UNCHANGED <<parsed, env, exitCode>>
       ELSE /\ pc' = "exit"
            /\ exitCode' = 0
            /\ UNCHANGED <<ret, handler, raised, symbol, limit, fetchVars,
                           analyzeVars, notify, sent, paused, caught, env, idx,
                           attempted>>

\* if not ohlcv_data: continue; else analyze_with_gemini(symbol, ohlcv_data)
AfterFetch ==
    /\ pc = "after_fetch"
    /\ IF ~Truthy(ohlcv_data)
       THEN pc' = "loop" /\ UNCHANGED ret
       ELSE pc' = "analyze_with_gemini" /\ ret' = "after_analyze"
    /\ UNCHANGED <<handler, raised, symbol, limit, fetchVars, analyzeVars, loopVars>>

\* if self.should_send_notification(analysis): format and send the message;
\* else: go on to the pause
AfterDecisionAlwaysSend(val) == "format_analysis_message"
AfterDecision(val) == IF val THEN "format_analysis_message" ELSE "sleep"

\* if not analysis: continue; else should_send_notification(analysis);
\* the record of the finished call's POSTs and sleeps is dropped
AfterAnalyze ==
    /\ pc = "after_analyze"
    /\ IF ~TruthyValue(analysis)
       THEN /\ pc' = "loop"
            /\ UNCHANGED <<raised, notify>>
       ELSE LET r == ShouldSendNotification(analysis) IN
            IF r.exc # "none"
            THEN /\ raised' = r.exc
                 /\ pc' = handler
                 /\ UNCHANGED notify
            ELSE /\ notify' = IF r.val THEN "yes" ELSE "no"
                 /\ pc' = AfterDecision(r.val)
                 /\ UNCHANGED raised
    /\ statuses' = <<>>
    /\ sleeps' = <<>>
    /\ UNCHANGED <<ret, handler, symbol, limit, fetchVars, analysis, origin,
                   attempt, response, parsed, sent, paused, caught, env,
                   exitCode, idx, attempted>>

\* message = format_analysis_message(analysis); send_telegram_message(message),
\* which returns False instead of raising when the delivery fails
Notify ==
    /\ pc = "format_analysis_message"
    /\ IF FormatRaises(analysis)
       THEN /\ raised' = "KeyError"
            /\ pc' = handler
            /\ UNCHANGED sent
       ELSE /\ \E success \in BOOLEAN :
                 sent' = Append(sent, [symbol |-> symbol, success |-> success])
            /\ pc' = "sleep"
            /\ UNCHANGED raised
    /\ UNCHANGED <<ret, handler, symbol, limit, fetchVars, analyzeVars, notify,
                   paused, caught, env, exitCode, idx, attempted>>

\* time.sleep(2) at the end of the pass
Pause ==
    /\ pc = "sleep"
    /\ paused' = TRUE
    /\ pc' = "loop"
    /\ UNCHANGED <<ret, handler, raised, symbol, limit, fetchVars, analyzeVars,
                   notify, sent, caught, env, exitCode, idx, attempted>>

\* except Exception as e: print(...); continue
ExceptEndsRun ==
    /\ pc = "except"
    /\ caught' = raised
    /\ raised' = "none"
    /\ pc' = "exit"
    /\ exitCode' = 1
    /\ UNCHANGED <<ret, handler, symbol, limit, fetchVars, analyzeVars, notify,
                   sent, paused, env, idx, attempted>>
Except ==
    /\ pc = "except"
    /\ caught' = raised
    /\ raised' = "none"
    /\ pc' = "loop"
    /\ UNCHANGED <<ret, handler, symbol, limit, fetchVars, analyzeVars, notify,
                   sent, paused, env, exitCode, idx, attempted>>

----------------------------------------------------------------------------
(* The run of the program *)

Idle ==
    /\ ret = "returned"
    /\ handler = "returned"
    /\ raised = "none"
    /\ calls = <<>>
    /\ requests = <<>>
    /\ origin = "none"
    /\ attempt = 0
    /\ statuses = <<>>
    /\ sleeps = <<>>
    /\ parsed = NotParsed
    /\ notify = "undecided"
    /\ sent = <<>>
    /\ paused = FALSE
    /\ caught = "none"
    /\ exitCode = -1
    /\ idx = 0
    /\ attempted = <<>>

Init ==
    /\ pc = "main"
    /\ response = Unbound
    /\ env \in SUBSET Secrets
    /\ symbol = ""
    /\ limit = DefaultLimit
    /\ ohlcv_data = None
    /\ analysis = NoneValue
    /\ Idle

Next ==
    \/ Construct \/ LoopNext
    \/ TryCoinGecko \/ TryCoinCap \/ GenerateMockData \/ AfterFetch
    \/ AnalyzeStart \/ GeminiRequest \/ ParseResponse \/ AfterAnalyze
    \/ Notify \/ Pause \/ Except

Spec == Init /\ [][Next]_vars

----------------------------------------------------------------------------
(* get_crypto_data called on its own, for any symbol and limit *)

FetchInit ==
    /\ pc = "get_crypto_data"
    /\ response = Unbound
    /\ env = Secrets
    /\ symbol \in Symbols
    /\ limit \in Limits
    /\ ohlcv_data = None
    /\ analysis = NoneValue
    /\ Idle

FetchNext == TryCoinGecko \/ TryCoinCap \/ GenerateMockData

FetchSpec == FetchInit /\ [][FetchNext]_vars

----------------------------------------------------------------------------
(* analyze_with_gemini called on its own, for any symbol and series *)

SampleSeries ==
    {List(<<>>)}
    \cup {CoinGeckoResult("BTCUSDT", r) : r \in Responses}
    \cup {CoinCapResult("BTCUSDT", r) : r \in {q \in Responses : q.n <= MaxPoints}}

AnalyzeInit ==
    /\ pc = "analyze_with_gemini"
    /\ response = Unbound
    /\ env = Secrets
    /\ symbol \in {"BTCUSDT", "DOGEUSDT"}
    /\ limit = DefaultLimit
    /\ ohlcv_data \in SampleSeries
    /\ analysis = NoneValue
    /\ Idle

AnalyzeNext == AnalyzeStart \/ GeminiRequest \/ ParseResponse

AnalyzeSpec == AnalyzeInit /\ [][AnalyzeNext]_vars

----------------------------------------------------------------------------
(* _extract_json_from_response called on its own, for any short text and   *)
(* for any short JSON object in each wrapping                               *)

TextTokens == {FenceJson, Fence, "{", "}", Quote, " ", "x", "5"}

ShortTexts == UNION {[1..n -> TextTokens] : n \in 0..MaxTextLen}

IsObjectText(t) == Len(t) > 0 /\ t[1] = "{" /\ JsonLoads(t).ok

ExtractTexts ==
    ShortTexts
    \cup {Wrap(st, J) : st \in Styles, J \in {t \in ShortTexts : IsObjectText(t)}}

ExtractInit ==
    /\ pc = "extract_json"
    /\ env = Secrets
    /\ symbol = "BTCUSDT"
    /\ limit = DefaultLimit
    /\ ohlcv_data = None
    /\ analysis = NoneValue
    /\ response \in {Body("text", t) : t \in ExtractTexts}
    /\ Idle

ExtractNext == ExtractJsonStep

ExtractSpec == ExtractInit /\ [][ExtractNext]_vars

----------------------------------------------------------------------------
(* should_send_notification called on its own, for any complete record *)

NotifyRecords ==
    {[kind |-> "dict", keys |-> AllKeys, symbol |-> "BTCUSDT",
      current_price |-> 6500000, rsi |-> r, macd_histogram |-> h,
      rsi_signal |-> "neutral", trend_short |-> "neutral",
      trend_long |-> "neutral", sma_cross |-> x, macd_signal |-> m,
      overall_signal |-> o] :
        r \in {299, 300, 301, 500, 699, 700, 701},
        h \in {-101, -100, 0, 100, 101},
        x \in {"golden_cross", "death_cross", "neutral"},
        m \in {"bullish", "bearish", "neutral"},
        o \in {"strong_buy", "buy", "hold", "sell", "strong_sell"}}

NotifyInit ==
    /\ pc = "should_send_notification"
    /\ response = Unbound
    /\ env = Secrets
    /\ symbol = "BTCUSDT"
    /\ limit = DefaultLimit
    /\ ohlcv_data = None
    /\ Idle
    /\ analysis \in NotifyRecords

NotifyNext == Decide

NotifySpec == NotifyInit /\ [][NotifyNext]_vars

----------------------------------------------------------------------------
(* Properties of get_crypto_data (FetchSpec) *)

\* C1: get_crypto_data raises nothing and returns a non-empty list, whatever
\* the symbol and whatever each provider answers.
C1_NeverEmpty ==
    /\ raised = "none"
    /\ pc \in {"get_crypto_data", "try_coincap", "generate_mock_data", "returned"}
    /\ pc = "returned" =>
         ohlcv_data.kind = "list" /\ Len(ohlcv_data.items) > 0

C1_AllProvidersFailed ==
    /\ pc = "returned"
    /\ Len(calls) = 3
    /\ Len(ohlcv_data.items) > 0

ProviderOrder == <<"coingecko", "coincap", "mock">>

\* C4: the providers are called in the fixed order CoinGecko, CoinCap, mock
\* generator; a provider is called only after all earlier ones failed, and no
\* provider is called after one has succeeded.
C4_FixedOrderFirstWins ==
    /\ Len(calls) <= Len(ProviderOrder)
    /\ \A i \in 1..Len(calls) :
         /\ calls[i].fn = ProviderOrder[i]
         /\ i < Len(calls) => ~calls[i].ok
    /\ pc = "returned" => Len(calls) > 0 /\ calls[Len(calls)].ok

C4_SecondProviderWon ==
    /\ pc = "returned"
    /\ Len(calls) = 2
    /\ ~calls[1].ok
    /\ calls[2].ok

\* C10: the list returned by get_crypto_data is never longer than the limit
\* that was asked for.
C10_LengthWithinLimit ==
    pc = "returned" => Len(ohlcv_data.items) <= limit

\* C12: every candle of the list returned by get_crypto_data, whichever
\* provider produced it, has close_time = timestamp + 300000.
C12_CloseTimeIsNextOpen ==
    pc = "returned" =>
        \A i \in 1..Len(ohlcv_data.items) :
            ohlcv_data.items[i].close_time = ohlcv_data.items[i].timestamp + IntervalMs

\* the series came from _generate_mock_data
FromMock == pc = "returned" /\ calls # <<>> /\ calls[Len(calls)].fn = "mock"

\* the timestamps increase by exactly one interval from candle to candle
EvenlySpaced(d) ==
    \A i \in 1..(Len(d) - 1) : d[i + 1].timestamp = d[i].timestamp + IntervalMs

\* each open lies within 2 % of the close before it
OpensFollowCloses(d) ==
    \A i \in 1..(Len(d) - 1) :
        Abs(Float(d[i + 1].open) - Float(d[i].close))
            <= MulDiv(Float(d[i].close), 2, 100) + 1

\* C18: the series of the mock generator has exactly `limit` candles, its
\* timestamps increase by exactly 300000 ms and end at the current time, and
\* each candle's open derives from the close of the candle before it.
C18_MockSeriesShape ==
    FromMock =>
        /\ Len(ohlcv_data.items) = limit
        /\ EvenlySpaced(ohlcv_data.items)
        /\ ohlcv_data.items[Len(ohlcv_data.items)].timestamp \in Nows
        /\ OpensFollowCloses(ohlcv_data.items)

\* the candle c is the OHLC point p with the placeholder volume and the close
\* time one interval after the timestamp
SamePoint(c, p) ==
    /\ c.timestamp = p.t
    /\ c.open = Str(p.o) /\ c.high = Str(p.h)
    /\ c.low = Str(p.l) /\ c.close = Str(p.c)
    /\ c.volume = 1000000
    /\ c.close_time = c.timestamp + 300000

\* The OHLC provider is asked for the mapped asset id, a series it returns is
\* its points in their order, one candle per point, and a symbol outside the
\* mapping table fails it without a request.
GeckoOneToOne ==
    /\ (calls # <<>> /\ symbol = "BTCUSDT") =>
         requests[1] = [provider |-> "coingecko", id |-> "bitcoin"]
    /\ (calls # <<>> /\ symbol = "ETHUSDT") =>
         requests[1] = [provider |-> "coingecko", id |-> "ethereum"]
    /\ (calls # <<>> /\ symbol = "CROUSDT") =>
         requests[1] = [provider |-> "coingecko", id |-> "crypto-com-chain"]
    /\ (calls # <<>> /\ symbol \notin {"BTCUSDT", "ETHUSDT", "CROUSDT"}) =>
         /\ ~calls[1].ok
         /\ \A i \in 1..Len(requests) : requests[i].provider # "coingecko"
    /\ (pc = "returned" /\ Len(calls) = 1) =>
         /\ calls[1].fn = "coingecko"
         /\ \E resp \in Responses :
              /\ resp.status_code = 200
              /\ Len(ohlcv_data.items) = resp.n
              /\ \A i \in 1..resp.n :
                   SamePoint(ohlcv_data.items[i], GeckoBody(resp)[i])

\* the OHLC provider is queried only after a request to the exchange endpoint
AfterExchange ==
    \A i \in 1..Len(requests) :
        requests[i].provider = "coingecko" =>
            \E j \in 1..(i - 1) : requests[j].provider = "exchange"

----------------------------------------------------------------------------
(* Properties of analyze_with_gemini (AnalyzeSpec) *)

ValidRecord(a) == a.kind = "dict" /\ AllKeys \subseteq a.keys

\* C2: analyze_with_gemini raises nothing and returns a record with every
\* required key, for every series (the empty one included) and every reply.
C2_AlwaysValidRecord ==
    /\ raised = "none"
    /\ pc = "returned" => ValidRecord(analysis)

\* C3: one call POSTs at most three times, and when the third POST fails with
\* 503 or a network error the call returns the mock analysis and raises nothing.
C3_AtMostThreeAttempts ==
    /\ Len(statuses) <= 3
    /\ (Len(statuses) = 3 /\ statuses[3] \in {"503", "net_error"}) =>
         /\ pc = "returned"
         /\ raised = "none"
         /\ origin = "mock"
         /\ ValidRecord(analysis)

C3_ThirdAttemptFailed ==
    /\ pc = "returned"
    /\ statuses = <<"net_error", "503", "503">>
    /\ origin = "mock"

RsiSignals == {"overbought", "oversold", "neutral"}
TrendSignals == {"bullish", "bearish", "neutral"}
CrossSignals == {"golden_cross", "death_cross", "neutral"}
OverallSignals == {"strong_buy", "buy", "hold", "sell", "strong_sell"}

\* C6: every record returned by analyze_with_gemini, parsed from the reply or
\* generated locally, has its six signals inside the enumerated sets.
C6_SignalsInEnums ==
    (pc = "returned" /\ analysis.kind = "dict" /\ SignalKeys \subseteq analysis.keys) =>
        /\ analysis.rsi_signal \in RsiSignals
        /\ analysis.trend_short \in TrendSignals
        /\ analysis.trend_long \in TrendSignals
        /\ analysis.macd_signal \in TrendSignals
        /\ analysis.sma_cross \in CrossSignals
        /\ analysis.overall_signal \in OverallSignals

IsPrefix(p, q) == Len(p) <= Len(q) /\ SubSeq(q, 1, Len(p)) = p

RECURSIVE SumSeq(_)
SumSeq(q) == IF q = <<>> THEN 0 ELSE q[1] + SumSeq(Tail(q))

\* C9: after 503, 503 and then a 200 whose text carries a record, the call
\* returns that record (not the mock analysis) and has slept 1 s then 2 s.
C9_SuccessOnThirdAttempt ==
    [][\A st \in Styles, p \in PayloadIds :
         (/\ pc = "gemini_parse"
          /\ statuses = <<"503", "503", "200">>
          /\ response = Body("text", Wrap(st, PayloadText(p)))) =>
             /\ pc' = "returned"
             /\ raised' = "none"
             /\ origin' = "gemini"
             /\ analysis' = PayloadRecord(p)
             /\ sleeps' = <<1, 2>>
             /\ SumSeq(sleeps') = 3]_vars

C9_ReturnedOnThirdAttempt ==
    /\ pc = "returned"
    /\ statuses = <<"503", "503", "200">>
    /\ origin = "gemini"
    /\ analysis = PayloadRecord("quiet")
    /\ sleeps = <<1, 2>>

Retryable == {"503", "net_error"}

\* C15: a further POST follows only a 503 or a network error; after any other
\* failure (a 4xx status) the call returns the mock analysis at once, with no
\* further POST and no wait.
C15_OnlyTransientRetried ==
    /\ \A i \in 1..(Len(statuses) - 1) : statuses[i] \in Retryable
    /\ Len(sleeps) <= Cardinality({i \in 1..Len(statuses) : statuses[i] \in Retryable})
    /\ (statuses # <<>> /\ statuses[Len(statuses)] = "400") =>
         pc = "returned" /\ raised = "none" /\ origin = "mock"

\* the reply shapes that lack a level of candidates[0].content.parts[0].text
LackingShapes == {"no_candidates", "empty_candidates", "no_content", "no_parts",
                  "empty_parts", "no_text"}

\* C17: when the reply lacks candidates (or has none), content, parts (or has
\* none) or text, or when the extraction reads no JSON from the text, the
\* call returns, raising nothing, a record that _generate_mock_analysis
\* produces for the same symbol and series.
C17_FallbackOnBrokenReply ==
    [][(/\ pc = "gemini_parse"
        /\ \/ response.shape \in LackingShapes
           \/ response.shape = "text" /\ ~ExtractJson(response.text).ok) =>
            /\ pc' = "returned"
            /\ raised' = "none"
            /\ origin' = "mock"
            /\ \E d \in MockDraws : analysis' = MockAnalysis(symbol, ohlcv_data, d)
            /\ ValidRecord(analysis')]_vars

C17_FellBackAfterReply ==
    /\ pc = "returned"
    /\ statuses = <<"200">>
    /\ origin = "mock"
    /\ ValidRecord(analysis)

\* C20: _generate_mock_analysis never yields overall_signal = strong_sell:
\* with no bullish signal at all the result is already sell.
C20_NoStrongSellFromMock ==
    (pc = "returned" /\ origin = "mock") =>
        analysis.overall_signal \in {"strong_buy", "buy", "hold", "sell"}

C20_NoBullishSignalIsSell ==
    /\ pc = "returned"
    /\ origin = "mock"
    /\ analysis.rsi >= 300
    /\ analysis.trend_short = "bearish"
    /\ analysis.trend_long = "bearish"
    /\ analysis.sma_cross # "golden_cross"
    /\ analysis.macd_signal = "bearish"
    /\ analysis.overall_signal = "sell"

\* the smaller of two numbers
Min(a, b) == IF a <= b THEN a ELSE b

\* C21: within one call a wait is taken only after a failed first POST (1 s)
\* and after a failed second POST (2 s), whether the failure is a 503 or a
\* network error; no wait follows the third POST, so 4 s is never slept and
\* the waits of a call add up to at most 3 s.
C21_WaitsOnlyBeforeRetries ==
    /\ IsPrefix(sleeps, <<1, 2>>)
    /\ SumSeq(sleeps) <= 3
    /\ Len(sleeps) <= Len(statuses)
    /\ \A i \in 1..Len(sleeps) : statuses[i] # "200"
    /\ \A i \in 1..Min(Len(statuses), 2) :
         statuses[i] \in Retryable => Len(sleeps) >= i
    /\ Len(statuses) = 3 => sleeps = <<1, 2>>

C21_ThreeFailuresTwoWaits ==
    /\ pc = "returned"
    /\ statuses = <<"503", "net_error", "net_error">>
    /\ sleeps = <<1, 2>>
    /\ origin = "mock"

----------------------------------------------------------------------------
(* Properties of should_send_notification (NotifySpec) *)

\* C8: should_send_notification is true exactly when rsi > 70 or rsi < 30, or
\* overall_signal is strong_buy/strong_sell, or sma_cross is a golden or death
\* cross, or macd_signal is bullish/bearish with |macd_histogram| > 0.1; the
\* comparisons are strict.
C8_NotifyIff ==
    pc = "returned" =>
        /\ raised = "none"
        /\ notify \in {"yes", "no"}
        /\ notify = "yes" <=>
             \/ analysis.rsi > 700
             \/ analysis.rsi < 300
             \/ analysis.overall_signal \in {"strong_buy", "strong_sell"}
             \/ analysis.sma_cross \in {"golden_cross", "death_cross"}
             \/ /\ analysis.macd_signal \in {"bullish", "bearish"}
                /\ (analysis.macd_histogram > 100 \/ analysis.macd_histogram < -100)

C8_BoundaryDoesNotNotify ==
    /\ pc = "returned"
    /\ analysis.rsi = 700
    /\ analysis.macd_signal = "bullish"
    /\ analysis.macd_histogram = 100
    /\ notify = "no"

----------------------------------------------------------------------------
(* Properties of the run (Spec) *)

\* How far the run is from its end: the symbols not yet started, then the
\* stage of the current pass, then the attempts the retry loop has left.
StageRank(p) ==
    CASE p = "exit" -> 0
      [] p = "loop" -> 1
      [] p \in {"sleep", "except"} -> 2
      [] p = "format_analysis_message" -> 3
      [] p = "after_analyze" -> 4
      [] p = "gemini_parse" -> 5
      [] p = "gemini_request" -> 6
      [] p = "analyze_with_gemini" -> 7
      [] p = "after_fetch" -> 8
      [] p = "generate_mock_data" -> 9
      [] p = "try_coincap" -> 10
      [] p = "get_crypto_data" -> 11
      [] OTHER -> 100

Rank ==
    (Len(coins) - idx) * 200 + StageRank(pc) * 10
    + (IF pc = "gemini_request" THEN MaxAttempts - attempt ELSE 0)

\* The guards of the actions of Next: each is its label, and the retry loop
\* also needs an attempt left; past its guard every action has a successor.
CanStep ==
    \/ pc \in {"main", "loop", "get_crypto_data", "try_coincap",
               "generate_mock_data", "after_fetch", "analyze_with_gemini",
               "gemini_parse", "after_analyze", "format_analysis_message",
               "sleep", "except"}
    \/ pc = "gemini_request" /\ attempt < MaxAttempts

\* C5: whatever happens to a symbol (a delivery failure, an exception at any
\* stage), the symbols are started once each in the order of the list and the
\* run ends with exit code 0 after all of them: the run never stops before
\* its exit, every step brings it closer to the exit, and once the secrets
\* were accepted it exits only with code 0 and every symbol started.
C5_AllSymbolsAttempted ==
    /\ [](IsPrefix(attempted, coins))
    /\ [](pc # "exit" => CanStep)
    /\ [][Rank' < Rank]_vars
    /\ [](pc = "exit" /\ env = Secrets => exitCode = 0 /\ attempted = coins)

C5_CompletedAfterFailures ==
    /\ pc = "exit"
    /\ exitCode = 0
    /\ attempted = coins
    /\ caught # "none"

----------------------------------------------------------------------------
(* Properties of _extract_json_from_response (ExtractSpec) *)

\* the text t is exactly a JSON object wrapped in a json code fence
IsFencedObject(t) ==
    /\ Len(t) >= 6
    /\ t[1] = FenceJson /\ t[2] = " "
    /\ t[Len(t) - 1] = " " /\ t[Len(t)] = Fence
    /\ IsObjectText(SubSeq(t, 3, Len(t) - 2))

\* C11: for every JSON object text J, the extraction applied to J wrapped in
\* a json code fence reads the same object as the extraction applied to the
\* bare text J.
C11_FenceInsensitive ==
    (pc = "returned" /\ IsFencedObject(response.text)) =>
        /\ parsed = ExtractJson(SubSeq(response.text, 3, Len(response.text) - 2))
        /\ analysis = ExtractJsonFromResponse(
                          SubSeq(response.text, 3, Len(response.text) - 2))

FenceMarkers == {Fence, FenceJson}

\* C16: the extraction applies its methods in strict priority order.  With a
\* json fence marker in the text the result is the parse of what stands
\* between the first such marker and the next fence marker (or the end), even
\* when an object stands before the fence; otherwise, with a "{" whose
\* depth-matching "}" exists, it is the parse of the text from the first "{"
\* to that "}"; otherwise it is the parse of the whole text.  A failed parse
\* is the result (nothing read), no later method is tried after it.
C16_StrictPriority ==
    pc = "returned" =>
        LET t == response.text
            n == Len(t)
        IN IF \E i \in 1..n : t[i] = FenceJson
           THEN \E i \in 1..n, e \in 2..(n + 1) :
                  /\ t[i] = FenceJson
                  /\ \A j \in 1..(i - 1) : t[j] # FenceJson
                  /\ i < e
                  /\ e = n + 1 \/ t[e] \in FenceMarkers
                  /\ \A j \in (i + 1)..(e - 1) : t[j] \notin FenceMarkers
                  /\ parsed = JsonLoads(SubSeq(t, i + 1, e - 1))
           ELSE IF \E i \in 1..n, k \in 1..n :
                     /\ t[i] = "{" /\ \A j \in 1..(i - 1) : t[j] # "{"
                     /\ i < k /\ t[k] = "}" /\ BraceCount(t, i, k) = 0
           THEN \E i \in 1..n, k \in 1..n :
                  /\ t[i] = "{" /\ \A j \in 1..(i - 1) : t[j] # "{"
                  /\ i < k /\ t[k] = "}" /\ BraceCount(t, i, k) = 0
                  /\ \A j \in (i + 1)..(k - 1) :
                       ~(t[j] = "}" /\ BraceCount(t, i, j) = 0)
                  /\ parsed = JsonLoads(SubSeq(t, i, k))
           ELSE parsed = JsonLoads(t)

C16_FailedFenceIsFinal ==
    /\ pc = "returned"
    /\ response.text = <<"{", "}", FenceJson, "x">>
    /\ parsed = NotParsed

\* C13: the 2 s pause is taken after every symbol that is followed by another
\* one, whatever the outcome of its pass: when the loop takes the next symbol
\* the pass before it has slept.
C13_PauseBetweenSymbols ==
    (pc = "loop" /\ idx >= 1 /\ idx < Len(coins)) => paused

\* C14: with any of the three secrets absent the run does no work: it goes
\* from main straight to the exit, no provider, AI or Telegram call is made,
\* no symbol is started, and the exit status is 1.
C14_MissingSecretAborts ==
    env # Secrets =>
        /\ pc \in {"main", "exit"}
        /\ calls = <<>> /\ requests = <<>>
        /\ statuses = <<>> /\ sent = <<>>
        /\ attempted = <<>> /\ idx = 0
        /\ pc = "exit" => exitCode = 1

C14_AbortedWithTwoSecrets ==
    /\ pc = "exit"
    /\ exitCode = 1
    /\ Cardinality(env) = 2

\* the stages of a pass that follow a completed, non-empty fetch
AfterFetchStages == {"analyze_with_gemini", "gemini_request", "gemini_parse",
                     "after_analyze", "format_analysis_message", "sleep"}

\* the stages of a pass that follow a completed, non-empty analysis and a
\* decision to notify
AfterDecisionStages == {"format_analysis_message"}

\* C22: at most one message is sent per symbol, and only after that symbol's
\* fetch and then its analysis have returned a non-empty result and
\* should_send_notification has returned true for that analysis; a symbol is
\* started once, and every stage of a pass works on the symbol the loop took
\* last.
C22_OneMessageAfterAllStages ==
    /\ Len(sent) <= 1
    /\ \A i \in 1..Len(sent) :
         /\ sent[i].symbol = symbol
         /\ Truthy(ohlcv_data) /\ calls # <<>> /\ calls[Len(calls)].ok
         /\ TruthyValue(analysis) /\ origin # "none"
         /\ notify = "yes"
         /\ pc \in {"sleep", "loop", "exit"}
    /\ \A i, j \in 1..Len(attempted) : attempted[i] = attempted[j] => i = j
    /\ (idx >= 1 /\ pc # "main") => symbol = coins[idx] /\ Len(attempted) = idx
    /\ pc \in AfterFetchStages =>
         Truthy(ohlcv_data) /\ calls # <<>> /\ calls[Len(calls)].ok
    /\ pc \in AfterDecisionStages =>
         TruthyValue(analysis) /\ origin # "none" /\ notify = "yes" /\ sent = <<>>
    /\ (pc \in {"get_crypto_data", "try_coincap", "generate_mock_data"}) =>
         analysis = NoneValue /\ notify = "undecided" /\ sent = <<>>

C22_MessageSentForLastSymbol ==
    /\ pc = "sleep"
    /\ idx = Len(coins)
    /\ Len(sent) = 1
    /\ sent[1].symbol = "CROUSDT"
    /\ notify = "yes"

\* C23: every record of _generate_mock_analysis has rsi within [30, 70] with
\* rsi_signal neutral, and trend_short, trend_long and macd_signal bullish or
\* bearish; so the decision on such a record is never yes through the RSI
\* rule alone, and is yes whenever |macd_histogram| > 0.1.
C23_MockRecordDecision ==
    (origin = "mock" /\ analysis.kind = "dict") =>
        /\ analysis.rsi >= 300 /\ analysis.rsi <= 700
        /\ analysis.rsi_signal = "neutral"
        /\ analysis.trend_short \in {"bullish", "bearish"}
        /\ analysis.trend_long \in {"bullish", "bearish"}
        /\ analysis.macd_signal \in {"bullish", "bearish"}
        /\ pc \in {"format_analysis_message", "sleep"} =>
             /\ notify \in {"yes", "no"}
             /\ Abs(analysis.macd_histogram) > 100 => notify = "yes"
             /\ notify = "yes" =>
                  \/ analysis.overall_signal \in {"strong_buy", "strong_sell"}
                  \/ analysis.sma_cross \in {"golden_cross", "death_cross"}
                  \/ Abs(analysis.macd_histogram) > 100

C23_MockAtRsiBoundNotNotified ==
    /\ pc = "sleep"
    /\ origin = "mock"
    /\ analysis.rsi = 700
    /\ Abs(analysis.macd_histogram) = 50
    /\ notify = "no"

RequiredKeys == IndicatorKeys \cup LevelKeys \cup SignalKeys

\* C7: for a record that lacks a required key of indicators, levels or signals
\* no notification is decided on and none is sent.
C7_InvalidRecordNeverNotified ==
    (analysis.kind = "dict" /\ ~(RequiredKeys \subseteq analysis.keys)) =>
        notify = "undecided" /\ sent = <<>>

====
